---- MODULE Spec2Model ----
(***************************************************************************)
(* A model of go-certauth: the AuthorizationChecker implementations        *)
(* (AllowSpecificOUandCNs, PantheonSiteAuthChecker), the composite         *)
(* authorizer Auth.CheckAuthorization and the request binder               *)
(* (ValidateRequest, ProcessWithParams, Handler, RouterHandler).           *)
(*                                                                         *)
(* A Go string is a sequence of one-character strings, so that splitting   *)
(* a CN at its dots is computed and not assumed.  A Go slice is a record   *)
(* [isNil, elems], so that nil and empty slices are different values.      *)
(* An error is a record [kind, a, b]: the kind of the message and the two  *)
(* values the message is formatted from; kind "nil" is the nil error.      *)
(* A map[ContextKey]ContextValue is a function from the keys it holds.     *)
(***************************************************************************)
EXTENDS Integers, Sequences, FiniteSets, TLC

VARIABLES
    pc,       \* the operation that ran last ("idle" before the first one)
    checker,  \* the AuthorizationChecker under test (checker specifications)
    auth,     \* the Auth instance (authorizer and binder specifications)
    input,    \* the arguments of the last operation
    output,   \* what the last operation returned or did
    mem,         \* the Go heap: backing arrays of slices, maps, Auth structs
    goroutines,  \* where each goroutine stands, and its local variables
    history,     \* the first result CheckAuthorization returned for each input
    cr,          \* the CertReloader
    disk         \* the certificate and key files on disk

vars == <<pc, checker, auth, input, output, mem, goroutines, history, cr, disk>>

---------------------------------------------------------------------------
(* Bounds of the model *)

\* longest allow-list (OUs, CNs, SiteOUs) of a checker under test
MaxAllowed == 2
\* longest client OU list
MaxClientOUs == 2
\* longest client CN given to the site checker, in characters
MaxCNLen == 5
\* most checker groups added to an Auth with WithCheckers
MaxGroups == 3
\* most verified chains of a request
MaxChains == 2

---------------------------------------------------------------------------
(* Go values *)

NilSlice == [isNil |-> TRUE, elems |-> <<>>]

Slice(s) == [isNil |-> FALSE, elems |-> s]

GoLen(s) == Len(s.elems)

\* every sequence over S of length at most n
SeqsUpTo(S, n) == UNION {[1..k -> S] : k \in 0..n}

\* every slice over S of length at most n: nil, empty, and the non-empty ones
SlicesUpTo(S, n) == {NilSlice} \cup {Slice(s) : s \in SeqsUpTo(S, n)}

Elems(s) == {s.elems[i] : i \in 1..Len(s.elems)}

EmptyMap == [k \in {} |-> 0]

\* for k, v := range src { dst[k] = v }
MergeInto(dst, src) ==
    [k \in DOMAIN dst \cup DOMAIN src |-> IF k \in DOMAIN src THEN src[k] ELSE dst[k]]

NoErr == [kind |-> "nil", a |-> <<>>, b |-> <<>>]

Errorf(kind, a, b) == [kind |-> kind, a |-> a, b |-> b]

\* the idle values of the variables a specification does not use
NoChecker == [type |-> "none", OUs |-> NilSlice, CNs |-> NilSlice, SiteOUs |-> NilSlice]

NoOptions ==
    [AllowedOUs |-> NilSlice, AllowedCNs |-> NilSlice, AuthorizationCheckers |-> NilSlice,
     AuthErrorHandler |-> "nil"]

NoAuth == [checkers |-> <<>>, opt |-> NoOptions, errorHandler |-> "default"]

NoInput == <<>>

NoMem == [arrays |-> <<>>, maps |-> <<>>, auths |-> <<>>]

\* the variables the checker, authorizer and binder specifications do not use
others == <<mem, goroutines, history, cr, disk>>

NoOthers ==
    /\ mem = NoMem
    /\ goroutines = <<>>
    /\ history = <<>>
    /\ cr = <<>>
    /\ disk = <<>>

NoOutput == <<>>

---------------------------------------------------------------------------
(* certauth: context keys *)

HasAuthorizedOU == "certauth context Has Authorized OU"

HasAuthorizedCN == "certauth context Has Authorized CN"

---------------------------------------------------------------------------
(* certauth: AllowSpecificOUandCNs *)

AllowOUsandCNs(allowedOUs, allowedCNs) ==
    [type |-> "AllowSpecificOUandCNs", OUs |-> allowedOUs, CNs |-> allowedCNs,
     SiteOUs |-> NilSlice]

RECURSIVE allowedCNFrom(_, _, _)
allowedCNFrom(allowedCNs, clientCN, i) ==
    IF i > GoLen(allowedCNs)
    THEN Errorf("cert failed CN validation", <<clientCN>>, allowedCNs.elems)
    ELSE IF allowedCNs.elems[i] = clientCN
         THEN NoErr
         ELSE allowedCNFrom(allowedCNs, clientCN, i + 1)

allowedCNFirstOnly(allowedCNs, clientCN) ==
    IF GoLen(allowedCNs) > 0 /\ allowedCNs.elems[1] = clientCN
    THEN NoErr
    ELSE Errorf("cert failed CN validation", <<clientCN>>, allowedCNs.elems)

allowedCN(allowedCNs, clientCN) == allowedCNFrom(allowedCNs, clientCN, 1)

\* the two nested loops of allowedOU, at allowedOUs[i] and clientOUs[j]
RECURSIVE allowedOUFrom(_, _, _, _, _)
allowedOUFrom(allowedOUs, clientOUs, i, j, failed) ==
    IF i > GoLen(allowedOUs)
    THEN Errorf("cert failed OU validation", failed, allowedOUs.elems)
    ELSE IF j > GoLen(clientOUs)
         THEN allowedOUFrom(allowedOUs, clientOUs, i + 1, 1, failed)
         ELSE IF allowedOUs.elems[i] = clientOUs.elems[j]
              THEN NoErr
              ELSE allowedOUFrom(allowedOUs, clientOUs, i, j + 1,
                                 Append(failed, clientOUs.elems[j]))

\* a slip: the client OUs are compared with the first allowed OU only
allowedOUFirstOnly(allowedOUs, clientOUs) ==
    IF GoLen(allowedOUs) > 0 /\ allowedOUs.elems[1] \in Elems(clientOUs)
    THEN NoErr
    ELSE Errorf("cert failed OU validation", clientOUs.elems, allowedOUs.elems)

allowedOU(allowedOUs, clientOUs) == allowedOUFrom(allowedOUs, clientOUs, 1, 1, <<>>)

\* a slip: only a nil allow-list is taken as "not configured"
AllowCheckAuthorizationNilOnly(allow, clientOU, clientCN) ==
    LET ouErr == allowedOU(allow.OUs, clientOU)
        cnErr == allowedCN(allow.CNs, clientCN)
    IN  IF ~allow.OUs.isNil /\ ouErr # NoErr
        THEN [facts |-> EmptyMap, err |-> ouErr]
        ELSE IF ~allow.CNs.isNil /\ cnErr # NoErr
             THEN [facts |-> EmptyMap, err |-> cnErr]
             ELSE [facts |-> EmptyMap, err |-> NoErr]

\* a slip: when the CN check fails the results collected so far are returned
AllowCheckAuthorizationKeepsOU(allow, clientOU, clientCN) ==
    LET checkOU == ~allow.OUs.isNil /\ GoLen(allow.OUs) > 0
        checkCN == ~allow.CNs.isNil /\ GoLen(allow.CNs) > 0
        ouErr   == allowedOU(allow.OUs, clientOU)
        cnErr   == allowedCN(allow.CNs, clientCN)
        results1 == IF checkOU
                    THEN MergeInto(EmptyMap, [k \in {HasAuthorizedOU} |-> clientOU])
                    ELSE EmptyMap
        results2 == IF checkCN
                    THEN MergeInto(results1, [k \in {HasAuthorizedCN} |-> clientCN])
                    ELSE results1
    IN  IF checkOU /\ ouErr # NoErr
        THEN [facts |-> EmptyMap, err |-> ouErr]
        ELSE IF checkCN /\ cnErr # NoErr
             THEN [facts |-> results1, err |-> cnErr]
             ELSE [facts |-> results2, err |-> NoErr]

\* AllowSpecificOUandCNs.CheckAuthorization: (results, error)
AllowCheckAuthorization(allow, clientOU, clientCN) ==
    LET checkOU == ~allow.OUs.isNil /\ GoLen(allow.OUs) > 0
        checkCN == ~allow.CNs.isNil /\ GoLen(allow.CNs) > 0
        ouErr   == allowedOU(allow.OUs, clientOU)
        cnErr   == allowedCN(allow.CNs, clientCN)
        results1 == IF checkOU
                    THEN MergeInto(EmptyMap, [k \in {HasAuthorizedOU} |-> clientOU])
                    ELSE EmptyMap
        results2 == IF checkCN
                    THEN MergeInto(results1, [k \in {HasAuthorizedCN} |-> clientCN])
                    ELSE results1
    IN  IF checkOU /\ ouErr # NoErr
        THEN [facts |-> EmptyMap, err |-> ouErr]
        ELSE IF checkCN /\ cnErr # NoErr
             THEN [facts |-> EmptyMap, err |-> cnErr]
             ELSE [facts |-> results2, err |-> NoErr]

\* a slip: on a route with parameters the CN allow-list is not consulted
AllowCheckAuthorizationWithParamsOUOnly(allow, clientOU, clientCN, ps) ==
    IF GoLen(ps) > 0
    THEN AllowCheckAuthorization([allow EXCEPT !.CNs = NilSlice], clientOU, clientCN)
    ELSE AllowCheckAuthorization(allow, clientOU, clientCN)

\* AllowSpecificOUandCNs.CheckAuthorizationWithParams: the parameters are not read
AllowCheckAuthorizationWithParams(allow, clientOU, clientCN, ps) ==
    AllowCheckAuthorization(allow, clientOU, clientCN)

---------------------------------------------------------------------------
(* The allow-list checker on its own: SpecAllow *)

\* the strings OUs and CNs are drawn from; <<>> is the empty string
AllowStrings == {<<>>, <<"a">>, <<"b">>}

\* httprouter.Params: a slice of <<Key, Value>> pairs
AllowParams == {NilSlice, Slice(<< <<"site", <<"a">> >> >>), Slice(<< <<"id", <<"b">> >> >>)}

InitAllow ==
    /\ pc = "idle"
    /\ checker \in {AllowOUsandCNs(ous, cns) :
                      ous \in SlicesUpTo(AllowStrings, MaxAllowed),
                      cns \in SlicesUpTo(AllowStrings, MaxAllowed)}
    /\ auth = NoAuth
    /\ input = NoInput
    /\ output = NoOutput
    /\ NoOthers

CallAllowCheckAuthorization ==
    /\ pc = "idle"
    /\ \E clientOU \in SlicesUpTo(AllowStrings, MaxClientOUs), clientCN \in AllowStrings :
        /\ pc' = "CheckAuthorization"
        /\ input' = [clientOU |-> clientOU, clientCN |-> clientCN, ps |-> NilSlice]
        /\ output' = AllowCheckAuthorization(checker, clientOU, clientCN)
        /\ UNCHANGED <<checker, auth, others>>

CallAllowCheckAuthorizationWithParams ==
    /\ pc = "idle"
    /\ \E clientOU \in SlicesUpTo(AllowStrings, MaxClientOUs), clientCN \in AllowStrings,
          ps \in AllowParams :
        /\ pc' = "CheckAuthorizationWithParams"
        /\ input' = [clientOU |-> clientOU, clientCN |-> clientCN, ps |-> ps]
        /\ output' = AllowCheckAuthorizationWithParams(checker, clientOU, clientCN, ps)
        /\ UNCHANGED <<checker, auth, others>>

\* the caller has read the result and may call again
Return ==
    /\ pc # "idle"
    /\ pc' = "idle"
    /\ input' = NoInput
    /\ output' = NoOutput
    /\ UNCHANGED <<checker, auth, others>>

NextAllow ==
    \/ CallAllowCheckAuthorization
    \/ CallAllowCheckAuthorizationWithParams
    \/ Return

SpecAllow == InitAllow /\ [][NextAllow]_vars

AllowCalled == pc \in {"CheckAuthorization", "CheckAuthorizationWithParams"}

\* some client OU is string-equal to some allowed OU
OUsIntersect(allowedOUs, clientOU) == Elems(clientOU) \cap Elems(allowedOUs) # {}

\* C2: with a non-empty OU allow-list and no CN allow-list the checker succeeds
\* exactly when the client OU list and the allow-list have an element in common
C2_OUAllowedIffIntersect ==
    (AllowCalled /\ GoLen(checker.OUs) > 0 /\ GoLen(checker.CNs) = 0)
        => (output.err = NoErr <=> OUsIntersect(checker.OUs, input.clientOU))

\* the match is found at the second allowed OU and the second client OU
C2_Witness ==
    /\ AllowCalled /\ GoLen(checker.OUs) = 2 /\ GoLen(checker.CNs) = 0
    /\ GoLen(input.clientOU) = 2
    /\ input.clientOU.elems[1] = <<>>
    /\ input.clientOU.elems[2] = checker.OUs.elems[2]
    /\ input.clientOU.elems[1] \notin Elems(checker.OUs)
    /\ checker.OUs.elems[1] \notin Elems(input.clientOU)
    /\ output.err = NoErr

\* C3: with a non-empty CN allow-list and no OU allow-list the checker succeeds
\* exactly when the client CN is string-equal to an element of the allow-list
C3_CNAllowedIffMember ==
    (AllowCalled /\ GoLen(checker.CNs) > 0 /\ GoLen(checker.OUs) = 0)
        => (output.err = NoErr <=> input.clientCN \in Elems(checker.CNs))

\* the empty client CN is accepted by the second entry of the allow-list
C3_Witness ==
    /\ AllowCalled /\ GoLen(checker.CNs) = 2 /\ GoLen(checker.OUs) = 0
    /\ input.clientCN = <<>>
    /\ checker.CNs.elems[1] # <<>>
    /\ checker.CNs.elems[2] = <<>>
    /\ output.err = NoErr

\* C4: a nil or empty allow-list is a wildcard: its check is skipped, with both
\* lists nil or empty every client passes, and with both lists non-empty the
\* checker succeeds only if the OU check and the CN check both pass
C4_EmptyAllowListIsWildcard ==
    AllowCalled =>
        LET ouOK == OUsIntersect(checker.OUs, input.clientOU)
            cnOK == input.clientCN \in Elems(checker.CNs)
            ok   == output.err = NoErr
        IN  /\ (GoLen(checker.OUs) = 0 /\ GoLen(checker.CNs) = 0) => ok
            /\ (GoLen(checker.OUs) = 0 /\ GoLen(checker.CNs) > 0) => (ok <=> cnOK)
            /\ (GoLen(checker.OUs) > 0 /\ GoLen(checker.CNs) = 0) => (ok <=> ouOK)
            /\ (GoLen(checker.OUs) > 0 /\ GoLen(checker.CNs) > 0) => (ok => ouOK /\ cnOK)

\* an empty, non-nil OU list and a nil CN list let through a client without OUs
C4_Witness ==
    /\ AllowCalled
    /\ checker.OUs = Slice(<<>>) /\ checker.CNs = NilSlice
    /\ input.clientOU = NilSlice
    /\ output.err = NoErr

\* C17: on success the allow-list checker returns the fact HasAuthorizedOU
\* exactly when OUs is non-empty, its value the whole client OU list, and the
\* fact HasAuthorizedCN exactly when CNs is non-empty, its value the client CN;
\* on failure it returns no facts, also when the OU check had passed
C17_AllowListFacts ==
    AllowCalled =>
        /\ output.err = NoErr =>
              /\ DOMAIN output.facts \subseteq {HasAuthorizedOU, HasAuthorizedCN}
              /\ HasAuthorizedOU \in DOMAIN output.facts <=> GoLen(checker.OUs) > 0
              /\ HasAuthorizedCN \in DOMAIN output.facts <=> GoLen(checker.CNs) > 0
              /\ GoLen(checker.OUs) > 0 => output.facts[HasAuthorizedOU] = input.clientOU
              /\ GoLen(checker.CNs) > 0 => output.facts[HasAuthorizedCN] = input.clientCN
        /\ output.err # NoErr => output.facts = EmptyMap

\* one of two client OUs is allowed and the CN is allowed: both facts, the OU
\* fact holding the two client OUs
C17_Witness ==
    /\ AllowCalled
    /\ GoLen(checker.OUs) > 0 /\ GoLen(checker.CNs) > 0
    /\ GoLen(input.clientOU) = 2
    /\ input.clientOU.elems[1] \notin Elems(checker.OUs)
    /\ input.clientOU.elems[2] \in Elems(checker.OUs)
    /\ output.err = NoErr
    /\ output.facts[HasAuthorizedOU] = input.clientOU
    /\ output.facts[HasAuthorizedCN] = input.clientCN

\* C25: the allow-list checker ignores the path parameters: called with
\* parameters it returns the facts and the error it returns without them
C25_ParamsIgnored ==
    pc = "CheckAuthorizationWithParams" =>
        output = AllowCheckAuthorization(checker, input.clientOU, input.clientCN)

\* with a "site" parameter, a client is rejected for its CN and another gets
\* the CN fact
C25_Witness ==
    /\ pc = "CheckAuthorizationWithParams"
    /\ GoLen(input.ps) > 0
    /\ input.ps.elems[1][1] = "site"
    /\ GoLen(checker.CNs) > 0
    /\ input.clientCN \notin Elems(checker.CNs)
    /\ output.err.kind = "cert failed CN validation"
    /\ output.facts = EmptyMap

---------------------------------------------------------------------------
(* httprouter.Params *)

\* Params.ByName: the value of the first parameter of that name, else ""
RECURSIVE ByNameFrom(_, _, _)
ByNameFrom(ps, name, i) ==
    IF i > GoLen(ps)
    THEN <<>>
    ELSE IF ps.elems[i][1] = name
         THEN ps.elems[i][2]
         ELSE ByNameFrom(ps, name, i + 1)

ByName(ps, name) == ByNameFrom(ps, name, 1)

---------------------------------------------------------------------------
(* pantheon_auth: PantheonSiteAuthChecker *)

PantheonSite == "pantheon context Pantheon Site"

PantheonEnv == "pantheon context Pantheon Env"

PantheonSiteAuthChecker(siteOUs) ==
    [type |-> "PantheonSiteAuthChecker", OUs |-> NilSlice, CNs |-> NilSlice,
     SiteOUs |-> siteOUs]

\* PantheonSiteAuth: the allow-list checker followed by the site checker
PantheonSiteAuth(allowedOUs, allowedCNs, siteOUs) ==
    <<AllowOUsandCNs(allowedOUs, allowedCNs), PantheonSiteAuthChecker(siteOUs)>>

\* strings.Index for a one-character separator: the first position of sep, 0 if none
RECURSIVE IndexFrom(_, _, _)
IndexFrom(str, sep, i) ==
    IF i > Len(str) THEN 0
    ELSE IF str[i] = sep THEN i
    ELSE IndexFrom(str, sep, i + 1)

\* strings.SplitN(str, sep, n) for n >= 1: at most n substrings, the last one unsplit
RECURSIVE SplitN(_, _, _)
SplitN(str, sep, n) ==
    LET m == IndexFrom(str, sep, 1)
    IN  IF n <= 1 \/ m = 0
        THEN <<str>>
        ELSE <<SubSeq(str, 1, m - 1)>> \o SplitN(SubSeq(str, m + 1, Len(str)), sep, n - 1)

\* the strings uuid.Parse accepts, in this model's alphabet
ValidUUIDs == {<<"a">>, <<"b", "a">>}

\* uuid.Parse(str) returns no error
IsUUID(str) == str \in ValidUUIDs

\* a slip: the CN is split at every dot
ParseSiteEnvFromCNSplitAll(clientCN) ==
    LET words == SplitN(clientCN, ".", Len(clientCN) + 1)
    IN  IF Len(words) # 3
        THEN [site |-> <<>>, env |-> <<>>,
              err |-> Errorf("unexpected CN format", <<clientCN>>, <<>>)]
        ELSE IF ~IsUUID(words[2])
             THEN [site |-> <<>>, env |-> <<>>,
                   err |-> Errorf("site ID (from CN) is not a valid UUID", <<words[2]>>, <<>>)]
             ELSE [site |-> words[2], env |-> words[1], err |-> NoErr]

\* ParseSiteEnvFromCN: (site, environment, error)
ParseSiteEnvFromCN(clientCN) ==
    LET words == SplitN(clientCN, ".", 3)
    IN  IF Len(words) # 3
        THEN [site |-> <<>>, env |-> <<>>,
              err |-> Errorf("unexpected CN format", <<clientCN>>, <<>>)]
        ELSE IF ~IsUUID(words[2])
             THEN [site |-> <<>>, env |-> <<>>,
                   err |-> Errorf("site ID (from CN) is not a valid UUID", <<words[2]>>, <<>>)]
             ELSE [site |-> words[2], env |-> words[1], err |-> NoErr]

\* checkOUMembership: the two lists have an OU in common
RECURSIVE checkOUMembershipFrom(_, _, _, _)
checkOUMembershipFrom(serverOUs, clientOUs, i, j) ==
    IF i > GoLen(serverOUs) THEN FALSE
    ELSE IF j > GoLen(clientOUs) THEN checkOUMembershipFrom(serverOUs, clientOUs, i + 1, 1)
    ELSE IF serverOUs.elems[i] = clientOUs.elems[j] THEN TRUE
    ELSE checkOUMembershipFrom(serverOUs, clientOUs, i, j + 1)

checkOUMembership(serverOUs, clientOUs) == checkOUMembershipFrom(serverOUs, clientOUs, 1, 1)

prepareSiteContextParams(site, env) ==
    MergeInto([k \in {PantheonSite} |-> site], [k \in {PantheonEnv} |-> env])

\* PantheonSiteAuthChecker.CheckAuthorization: nil, nil
SiteCheckAuthorization(check, clientOU, clientCN) ==
    [facts |-> EmptyMap, err |-> NoErr]

Self == <<"s", "e", "l", "f">>

\* a variant that lets every site client through to the site named "self"
SiteCheckAuthorizationWithParamsAllowSelf(check, clientOU, clientCN, ps) ==
    LET uriSite == ByName(ps, "site")
        parsed  == ParseSiteEnvFromCN(clientCN)
    IN  IF ~checkOUMembership(check.SiteOUs, clientOU) \/ uriSite = <<>>
        THEN [facts |-> EmptyMap, err |-> NoErr]
        ELSE IF parsed.err # NoErr
             THEN [facts |-> EmptyMap, err |-> parsed.err]
             ELSE IF parsed.site # uriSite /\ uriSite # Self
                  THEN [facts |-> EmptyMap,
                        err |-> Errorf("site is not authorized", <<parsed.site>>, <<uriSite>>)]
                  ELSE [facts |-> prepareSiteContextParams(parsed.site, parsed.env),
                        err |-> NoErr]

\* a slip: the CN is parsed before the checker finds out whether it applies
SiteCheckAuthorizationWithParamsParsesFirst(check, clientOU, clientCN, ps) ==
    LET uriSite == ByName(ps, "site")
        parsed  == ParseSiteEnvFromCN(clientCN)
    IN  IF parsed.err # NoErr
        THEN [facts |-> EmptyMap, err |-> parsed.err]
        ELSE IF ~checkOUMembership(check.SiteOUs, clientOU) \/ uriSite = <<>>
             THEN [facts |-> EmptyMap, err |-> NoErr]
             ELSE IF parsed.site # uriSite
                  THEN [facts |-> EmptyMap,
                        err |-> Errorf("site is not authorized", <<parsed.site>>, <<uriSite>>)]
                  ELSE [facts |-> prepareSiteContextParams(parsed.site, parsed.env),
                        err |-> NoErr]

\* a slip: a CN that does not parse is taken for a client the check does not apply to
SiteCheckAuthorizationWithParamsSkipsBadCN(check, clientOU, clientCN, ps) ==
    LET uriSite == ByName(ps, "site")
        parsed  == ParseSiteEnvFromCN(clientCN)
    IN  IF ~checkOUMembership(check.SiteOUs, clientOU) \/ uriSite = <<>>
             \/ parsed.err # NoErr
        THEN [facts |-> EmptyMap, err |-> NoErr]
        ELSE IF parsed.site # uriSite
             THEN [facts |-> EmptyMap,
                   err |-> Errorf("site is not authorized", <<parsed.site>>, <<uriSite>>)]
             ELSE [facts |-> prepareSiteContextParams(parsed.site, parsed.env),
                   err |-> NoErr]

\* PantheonSiteAuthChecker.CheckAuthorizationWithParams: (facts, error)
SiteCheckAuthorizationWithParams(check, clientOU, clientCN, ps) ==
    LET uriSite == ByName(ps, "site")
        parsed  == ParseSiteEnvFromCN(clientCN)
    IN  IF ~checkOUMembership(check.SiteOUs, clientOU)
        THEN [facts |-> EmptyMap, err |-> NoErr]
        ELSE IF uriSite = <<>>
             THEN [facts |-> EmptyMap, err |-> NoErr]
             ELSE IF parsed.err # NoErr
                  THEN [facts |-> EmptyMap, err |-> parsed.err]
                  ELSE IF parsed.site # uriSite
                       THEN [facts |-> EmptyMap,
                             err |-> Errorf("site is not authorized",
                                            <<parsed.site>>, <<uriSite>>)]
                       ELSE [facts |-> prepareSiteContextParams(parsed.site, parsed.env),
                             err |-> NoErr]

---------------------------------------------------------------------------
(* The site checker on its own: SpecSite *)

\* the characters of a client CN
CNChars == {".", "a", "b"}

SiteCNs == SeqsUpTo(CNChars, MaxCNLen)

OUSite == <<"s", "i", "t", "e">>

OUEng == <<"e", "n", "g">>

SiteOUsPool == {NilSlice, Slice(<<>>), Slice(<<OUSite>>), Slice(<<OUEng, OUSite>>)}

SiteClientOUs ==
    {NilSlice, Slice(<< <<>> >>), Slice(<<OUSite>>), Slice(<<OUEng>>), Slice(<<OUEng, OUSite>>)}

\* the values of the "site" path parameter
SiteValues == {<<>>, <<"a">>, <<"b", "a">>, <<"b">>, Self}

SiteParams ==
    {NilSlice, Slice(<< <<"nosite", <<"a">> >> >>)}
        \cup {Slice(<< <<"site", v>> >>) : v \in SiteValues}
        \cup {Slice(<< <<"nosite", <<"a">> >>, <<"site", <<"b", "a">> >> >>),
              Slice(<< <<"site", <<"a">> >>, <<"site", <<"b", "a">> >> >>)}

InitSite ==
    /\ pc = "idle"
    /\ checker \in {PantheonSiteAuthChecker(ous) : ous \in SiteOUsPool}
    /\ auth = NoAuth
    /\ input = NoInput
    /\ output = NoOutput
    /\ NoOthers

CallSiteCheckAuthorization ==
    /\ pc = "idle"
    /\ \E clientOU \in SiteClientOUs, clientCN \in SiteCNs :
        /\ pc' = "SiteCheckAuthorization"
        /\ input' = [clientOU |-> clientOU, clientCN |-> clientCN, ps |-> NilSlice]
        /\ output' = SiteCheckAuthorization(checker, clientOU, clientCN)
        /\ UNCHANGED <<checker, auth, others>>

CallSiteCheckAuthorizationWithParams ==
    /\ pc = "idle"
    /\ \E clientOU \in SiteClientOUs, clientCN \in SiteCNs, ps \in SiteParams :
        /\ pc' = "SiteCheckAuthorizationWithParams"
        /\ input' = [clientOU |-> clientOU, clientCN |-> clientCN, ps |-> ps]
        /\ output' = SiteCheckAuthorizationWithParams(checker, clientOU, clientCN, ps)
        /\ UNCHANGED <<checker, auth, others>>

CallParseSiteEnvFromCN ==
    /\ pc = "idle"
    /\ \E clientCN \in SiteCNs :
        /\ pc' = "ParseSiteEnvFromCN"
        /\ input' = [clientOU |-> NilSlice, clientCN |-> clientCN, ps |-> NilSlice]
        /\ output' = ParseSiteEnvFromCN(clientCN)
        /\ UNCHANGED <<checker, auth, others>>

NextSite ==
    \/ CallSiteCheckAuthorization
    \/ CallSiteCheckAuthorizationWithParams
    \/ CallParseSiteEnvFromCN
    \/ Return

SpecSite == InitSite /\ [][NextSite]_vars

\* the positions of the dots of a string
Dots(str) == {i \in 1..Len(str) : str[i] = "."}

\* the position of the n-th dot of a string that has at least n dots
NthDot(str, n) == CHOOSE i \in Dots(str) : Cardinality({j \in Dots(str) : j <= i}) = n

\* the CN reads <env>.<site>.<rest>, env and site free of dots and site a UUID
IsSiteCN(cn) ==
    /\ Cardinality(Dots(cn)) >= 2
    /\ SubSeq(cn, NthDot(cn, 1) + 1, NthDot(cn, 2) - 1) \in ValidUUIDs

SiteOfCN(cn) == SubSeq(cn, NthDot(cn, 1) + 1, NthDot(cn, 2) - 1)

EnvOfCN(cn) == SubSeq(cn, 1, NthDot(cn, 1) - 1)

\* the site check applies: a client OU is a site OU and the route names a site
SiteCheckApplies ==
    /\ pc = "SiteCheckAuthorizationWithParams"
    /\ Elems(input.clientOU) \cap Elems(checker.SiteOUs) # {}
    /\ \E i \in 1..GoLen(input.ps) :
          /\ input.ps.elems[i][1] = "site"
          /\ input.ps.elems[i][2] # <<>>
          /\ \A j \in 1..(i - 1) : input.ps.elems[j][1] # "site"

\* the value of the first "site" parameter of the request
UriSite == input.ps.elems[CHOOSE i \in 1..GoLen(input.ps) :
                             /\ input.ps.elems[i][1] = "site"
                             /\ \A j \in 1..(i - 1) : input.ps.elems[j][1] # "site"][2]

NoSiteParam == \A i \in 1..GoLen(input.ps) : input.ps.elems[i][1] # "site"

\* the client has an OU that is a site OU of the checker
IsSiteClient == Elems(input.clientOU) \cap Elems(checker.SiteOUs) # {}

\* C18: the site checker succeeds with no facts, whatever the CN, when it is
\* called without parameters, when no client OU is a site OU and when the
\* route has no "site" parameter
C18_SiteCheckDoesNotApply ==
    (\/ pc = "SiteCheckAuthorization"
     \/ (pc = "SiteCheckAuthorizationWithParams" /\ (~IsSiteClient \/ NoSiteParam)))
        => output = [facts |-> EmptyMap, err |-> NoErr]

\* a site client with a CN that does not parse passes on a route without "site"
C18_Witness ==
    /\ pc = "SiteCheckAuthorizationWithParams"
    /\ IsSiteClient
    /\ GoLen(input.ps) > 0 /\ NoSiteParam
    /\ input.clientCN = <<"a", "b">>
    /\ ParseSiteEnvFromCN(input.clientCN).err # NoErr
    /\ output.err = NoErr
    /\ output.facts = EmptyMap

\* C19: ParseSiteEnvFromCN splits the CN at its first two dots: with fewer than
\* two dots it returns the format error, with a second segment that is not a
\* UUID the validation error, otherwise the second segment as site and the
\* first as environment; the rest, dots included, is dropped
C19_ParseSiteEnvFromCN ==
    pc = "ParseSiteEnvFromCN" =>
        IF Cardinality(Dots(input.clientCN)) < 2
        THEN output = [site |-> <<>>, env |-> <<>>,
                       err |-> Errorf("unexpected CN format", <<input.clientCN>>, <<>>)]
        ELSE IF SiteOfCN(input.clientCN) \notin ValidUUIDs
             THEN output = [site |-> <<>>, env |-> <<>>,
                            err |-> Errorf("site ID (from CN) is not a valid UUID",
                                           <<SiteOfCN(input.clientCN)>>, <<>>)]
             ELSE output = [site |-> SiteOfCN(input.clientCN),
                            env |-> EnvOfCN(input.clientCN), err |-> NoErr]

\* the CN b.a.. parses: its third segment is a dot
C19_Witness ==
    /\ pc = "ParseSiteEnvFromCN"
    /\ input.clientCN = <<"b", ".", "a", ".", ".">>
    /\ output.site = <<"a">>
    /\ output.env = <<"b">>
    /\ output.err = NoErr

\* the CN of the client has no dot
DotlessCN == Dots(input.clientCN) = {}

\* C20 as stated: for a site client whose CN has no dots the site checker fails
\* with the format error whatever the path parameters, also without "site"
C20_DotlessCNAlwaysFails ==
    (pc = "SiteCheckAuthorizationWithParams" /\ IsSiteClient /\ DotlessCN)
        => output.err.kind = "unexpected CN format"

\* C20 amended: for a site client whose CN has no dots the site checker fails
\* with the format error for every non-empty value of the "site" parameter,
\* and succeeds with no facts when the route has no, or an empty, "site"
C20_DotlessCNFailsWhereCheckApplies ==
    (pc = "SiteCheckAuthorizationWithParams" /\ IsSiteClient /\ DotlessCN) =>
        IF SiteCheckApplies
        THEN output = [facts |-> EmptyMap,
                       err |-> Errorf("unexpected CN format", <<input.clientCN>>, <<>>)]
        ELSE output = [facts |-> EmptyMap, err |-> NoErr]

\* the CN "ab" of a site client is rejected on the route of site "a"
C20_Witness ==
    /\ SiteCheckApplies
    /\ input.clientCN = <<"a", "b">>
    /\ UriSite = <<"a">>
    /\ output.err.kind = "unexpected CN format"

---------------------------------------------------------------------------
(* certauth: Auth, its construction and CheckAuthorization *)

\* New(opts...) before its options are applied
New == [checkers |-> <<>>, opt |-> NoOptions, errorHandler |-> "default"]

\* the AuthOption WithCheckers(checkers...) applied to a: one more group
WithCheckers(a, checkers) == [a EXCEPT !.checkers = Append(@, checkers)]

\* the AuthOption WithErrorHandler(handler) applied to a
WithErrorHandler(a, handler) == [a EXCEPT !.errorHandler = handler]

\* NewAuth(o): the allow-lists become one more legacy checker
NewAuth(o) ==
    LET h == IF o.AuthErrorHandler # "nil" THEN o.AuthErrorHandler ELSE "default"
        cks == IF GoLen(o.AllowedOUs) > 0 \/ GoLen(o.AllowedCNs) > 0
               THEN Slice(Append(o.AuthorizationCheckers.elems,
                                 AllowOUsandCNs(o.AllowedOUs, o.AllowedCNs)))
               ELSE o.AuthorizationCheckers
    IN  [checkers |-> <<>>,
         opt |-> [o EXCEPT !.AuthorizationCheckers = cks],
         errorHandler |-> h]

\* the interface call of CheckAuthorization: ck.CheckAuthorization when ps is nil,
\* ck.CheckAuthorizationWithParams otherwise
CallChecker(ck, ou, cn, ps) ==
    IF ps.isNil
    THEN IF ck.type = "AllowSpecificOUandCNs"
         THEN AllowCheckAuthorization(ck, ou, cn)
         ELSE SiteCheckAuthorization(ck, ou, cn)
    ELSE IF ck.type = "AllowSpecificOUandCNs"
         THEN AllowCheckAuthorizationWithParams(ck, ou, cn, ps)
         ELSE SiteCheckAuthorizationWithParams(ck, ou, cn, ps)

\* a slip: a group passes as soon as one of its checkers passes
RECURSIVE RunCheckersUntilOnePasses(_, _, _, _, _, _, _)
RunCheckersUntilOnePasses(cks, g, k, ou, cn, ps, st) ==
    IF k > Len(cks)
    THEN st
    ELSE LET r     == CallChecker(cks[k], ou, cn, ps)
             calls == Append(st.calls, <<g, k>>)
         IN  IF r.err = NoErr
             THEN [ctxParams |-> MergeInto(st.ctxParams, r.facts), err |-> NoErr,
                   calls |-> calls]
             ELSE RunCheckersUntilOnePasses(cks, g, k + 1, ou, cn, ps,
                                            [ctxParams |-> st.ctxParams, err |-> r.err,
                                             calls |-> calls])

\* the inner loop of CheckAuthorization over the checkers of group number g,
\* from checker k on; st holds ctxParams, err and the calls made so far
RECURSIVE RunCheckers(_, _, _, _, _, _, _)
RunCheckers(cks, g, k, ou, cn, ps, st) ==
    IF k > Len(cks)
    THEN st
    ELSE LET r     == CallChecker(cks[k], ou, cn, ps)
             calls == Append(st.calls, <<g, k>>)
         IN  IF r.err # NoErr
             THEN [ctxParams |-> st.ctxParams, err |-> r.err, calls |-> calls]
             ELSE RunCheckers(cks, g, k + 1, ou, cn, ps,
                              [ctxParams |-> MergeInto(st.ctxParams, r.facts),
                               err |-> NoErr, calls |-> calls])

\* a slip: the outer loop stops after its first group whatever the outcome
RunGroupsFirstOnly(groups, g, ou, cn, ps, st) ==
    IF g > Len(groups) THEN st ELSE RunCheckers(groups[g], g, 1, ou, cn, ps, st)

\* the outer loop of CheckAuthorization over the groups, from group g on
RECURSIVE RunGroups(_, _, _, _, _, _)
RunGroups(groups, g, ou, cn, ps, st) ==
    IF g > Len(groups)
    THEN st
    ELSE LET st2 == RunCheckers(groups[g], g, 1, ou, cn, ps, st)
         IN  IF st2.err = NoErr
             THEN st2
             ELSE RunGroups(groups, g + 1, ou, cn, ps, st2)

\* the groups CheckAuthorization tries: a.checkers, then the legacy checkers if any
GroupsOf(a) ==
    IF GoLen(a.opt.AuthorizationCheckers) > 0
    THEN Append(a.checkers, a.opt.AuthorizationCheckers.elems)
    ELSE a.checkers

\* what CheckAuthorization returns once its loops have ended in st
Returned(st) == [facts |-> st.ctxParams, err |-> st.err, calls |-> st.calls]

\* Auth.CheckAuthorization: (ctxParams, err), and the checker calls it made
CheckAuthorization(a, verifiedCert, ps) ==
    Returned(RunGroups(GroupsOf(a), 1, verifiedCert.OU, verifiedCert.CN, ps,
                       [ctxParams |-> EmptyMap, err |-> NoErr, calls |-> <<>>]))

---------------------------------------------------------------------------
(* The composite authorizer on its own: SpecAuth *)

CNAdmin == <<"a">>

CNSiteA == <<"b", ".", "a", ".", "b">>

CNSiteBA == <<"b", ".", "b", "a", ".">>

OUOther == <<"x">>

\* the checkers the groups are made of
ckOU == AllowOUsandCNs(Slice(<<OUEng>>), NilSlice)

ckCN == AllowOUsandCNs(NilSlice, Slice(<<CNAdmin>>))

ckBoth == AllowOUsandCNs(Slice(<<OUSite, OUEng>>), Slice(<<CNSiteA>>))

ckSite == PantheonSiteAuthChecker(Slice(<<OUSite>>))

AuthCheckers == {ckOU, ckCN, ckBoth, ckSite}

\* the groups of two checkers
AuthPairs == {<<ckSite, ckOU>>, <<ckOU, ckCN>>, <<ckBoth, ckSite>>, <<ckCN, ckBoth>>}

\* the arguments of one WithCheckers call: no, one or two checkers
AuthGroups == {<<>>} \cup {<<c>> : c \in AuthCheckers} \cup AuthPairs

\* the Options given to NewAuth
AuthOptions ==
    {[AllowedOUs |-> ous, AllowedCNs |-> cns, AuthorizationCheckers |-> cks,
      AuthErrorHandler |-> "nil"] :
        ous \in {NilSlice, Slice(<<OUEng>>)},
        cns \in {NilSlice, Slice(<<>>), Slice(<<CNAdmin>>)},
        cks \in {NilSlice, Slice(<<ckSite>>),
                 Slice(PantheonSiteAuth(Slice(<<OUSite, OUEng>>), NilSlice, Slice(<<OUSite>>)))}}

Cert(raw, ou, cn) == [Raw |-> raw, OU |-> ou, CN |-> cn]

\* the verified client certificates
AuthCerts ==
    {Cert(1, ou, cn) : ou \in {Slice(<<OUEng>>), Slice(<<OUSite>>), Slice(<<OUOther>>)},
                       cn \in {CNAdmin, CNSiteA, CNSiteBA}}

AuthParams ==
    {NilSlice, Slice(<< <<"nosite", <<"a">> >> >>), Slice(<< <<"site", <<"a">> >> >>),
     Slice(<< <<"site", <<"b", "a">> >> >>)}

InitAuth ==
    /\ pc = "idle"
    /\ checker = NoChecker
    /\ auth \in {New} \cup {NewAuth(o) : o \in AuthOptions}
    /\ input = NoInput
    /\ output = NoOutput
    /\ NoOthers

\* New applies the next option: WithCheckers(group)
ApplyWithCheckers ==
    /\ pc = "idle"
    /\ auth.opt = NoOptions
    /\ Len(auth.checkers) < MaxGroups
    /\ \E group \in AuthGroups : auth' = WithCheckers(auth, group)
    /\ UNCHANGED <<pc, checker, input, output, others>>

CallCheckAuthorization ==
    /\ pc = "idle"
    /\ \E verifiedCert \in AuthCerts, ps \in AuthParams :
        /\ pc' = "Auth.CheckAuthorization"
        /\ input' = [verifiedCert |-> verifiedCert, ps |-> ps]
        /\ output' = CheckAuthorization(auth, verifiedCert, ps)
        /\ UNCHANGED <<checker, auth, others>>

NextAuth ==
    \/ ApplyWithCheckers
    \/ CallCheckAuthorization
    \/ Return

SpecAuth == InitAuth /\ [][NextAuth]_vars

AuthCalled == pc = "Auth.CheckAuthorization"

\* every checker of the group returns a nil error for the client of the request
GroupPasses(group) ==
    \A k \in 1..Len(group) :
        CallChecker(group[k], input.verifiedCert.OU, input.verifiedCert.CN, input.ps).err = NoErr

\* C1: with one or more groups, none of them empty, CheckAuthorization returns
\* a nil error exactly when every checker of some group returns a nil error
C1_OrOfAnds ==
    (/\ AuthCalled
     /\ Len(GroupsOf(auth)) >= 1
     /\ \A g \in 1..Len(GroupsOf(auth)) : Len(GroupsOf(auth)[g]) >= 1)
        => (output.err = NoErr
              <=> \E g \in 1..Len(GroupsOf(auth)) : GroupPasses(GroupsOf(auth)[g]))

\* A || (B && C): the first group fails and the second group, of two checkers, passes
C1_Witness ==
    /\ AuthCalled
    /\ Len(auth.checkers) = 2
    /\ Len(auth.checkers[1]) = 1 /\ Len(auth.checkers[2]) = 2
    /\ ~GroupPasses(auth.checkers[1])
    /\ GroupPasses(auth.checkers[2])
    /\ auth.checkers[2][1] # auth.checkers[2][2]
    /\ output.err = NoErr

\* the policy is the two groups G1, G2; G1 failed and the call succeeded with G2
FailedThenPassed ==
    /\ AuthCalled
    /\ auth.opt = NoOptions
    /\ Len(auth.checkers) = 2
    /\ ~GroupPasses(auth.checkers[1])
    /\ GroupPasses(auth.checkers[2])
    /\ output.err = NoErr

\* C9: when G1 fails and G2 passes, the facts returned for [G1, G2] are the
\* facts returned for the policy that holds G2 alone
C9_FailedGroupFactsNeverLeak ==
    FailedThenPassed =>
        output.facts = CheckAuthorization(WithCheckers(New, auth.checkers[2]),
                                          input.verifiedCert, input.ps).facts

\* C10: an Auth without any group returns a non-nil error for every client
C10_ZeroGroupsAllowNothing ==
    (AuthCalled /\ Len(GroupsOf(auth)) = 0) => output.err # NoErr

\* C11: a policy with an empty group, at any position and whatever the groups
\* before it returned, authorizes every client
C11_EmptyGroupSucceeds ==
    (AuthCalled /\ \E g \in 1..Len(GroupsOf(auth)) : Len(GroupsOf(auth)[g]) = 0)
        => output.err = NoErr

\* the error of the first checker of the group that fails for the client
FirstFailure(group) ==
    LET k == CHOOSE i \in 1..Len(group) :
                 /\ CallChecker(group[i], input.verifiedCert.OU, input.verifiedCert.CN,
                                input.ps).err # NoErr
                 /\ \A j \in 1..(i - 1) :
                       CallChecker(group[j], input.verifiedCert.OU, input.verifiedCert.CN,
                                   input.ps).err = NoErr
    IN  CallChecker(group[k], input.verifiedCert.OU, input.verifiedCert.CN, input.ps).err

\* there is a group and every group has a checker that fails for the client
EveryGroupFails ==
    /\ AuthCalled
    /\ Len(GroupsOf(auth)) >= 1
    /\ \A g \in 1..Len(GroupsOf(auth)) : ~GroupPasses(GroupsOf(auth)[g])

\* when every group fails the error is the one of the last group
ErrorOfLastGroup ==
    EveryGroupFails =>
        output.err = FirstFailure(GroupsOf(auth)[Len(GroupsOf(auth))])

\* C12: when every group fails CheckAuthorization returns no facts and the
\* error of the failing checker of the last group
C12_AllFailNoFacts ==
    EveryGroupFails =>
        /\ output.facts = EmptyMap
        /\ output.err = FirstFailure(GroupsOf(auth)[Len(GroupsOf(auth))])

\* call <<g, k>> comes before call <<h, l>> in configuration order
Before(c, d) == c[1] < d[1] \/ (c[1] = d[1] /\ c[2] < d[2])

\* the checker calls are made in configuration order, each at most once
CallsInOrder ==
    \A i, j \in 1..Len(output.calls) : i < j => Before(output.calls[i], output.calls[j])

\* no checker is called after a failing checker of its group
StopsAtFirstFailure ==
    \A i \in 1..Len(output.calls) :
        \A k \in 1..(output.calls[i][2] - 1) :
            CallChecker(GroupsOf(auth)[output.calls[i][1]][k], input.verifiedCert.OU,
                        input.verifiedCert.CN, input.ps).err = NoErr

\* no checker is called after a group that has succeeded
StopsAtFirstSuccess ==
    \A i \in 1..Len(output.calls) :
        \A g \in 1..(output.calls[i][1] - 1) : ~GroupPasses(GroupsOf(auth)[g])

\* C13: groups are tried in configuration order and checkers in group order,
\* each checker at most once; a group stops at its first failing checker and
\* the policy stops at its first group that succeeds
C13_OrderAndShortCircuit ==
    AuthCalled => (CallsInOrder /\ StopsAtFirstFailure /\ StopsAtFirstSuccess)

\* the same, for the policies that have no empty group
OrderWithoutEmptyGroups ==
    (AuthCalled /\ \A g \in 1..Len(GroupsOf(auth)) : Len(GroupsOf(auth)[g]) >= 1)
        => (CallsInOrder /\ StopsAtFirstFailure /\ StopsAtFirstSuccess)

\* the groups of the policy in the order given by the permutation p
Reordered(p) == [g \in 1..Len(auth.checkers) |-> auth.checkers[p[g]]]

\* the permutations of the positions of the groups
GroupOrders ==
    {p \in [1..Len(auth.checkers) -> 1..Len(auth.checkers)] :
        \A g, h \in 1..Len(auth.checkers) : p[g] = p[h] => g = h}

\* the decision for the client does not depend on the order of the groups
SameDecisionInEveryOrder ==
    \A p \in GroupOrders :
        (CheckAuthorization([auth EXCEPT !.checkers = Reordered(p)],
                            input.verifiedCert, input.ps).err = NoErr)
            <=> (output.err = NoErr)

\* C27: a policy and the same policy with its groups reordered both authorize
\* or both deny the client, also when a group is empty
C27_GroupOrderIrrelevant ==
    (AuthCalled /\ auth.opt = NoOptions) => SameDecisionInEveryOrder

\* the same, for the policies that have no empty group
GroupOrderIrrelevantWithoutEmptyGroups ==
    (/\ AuthCalled /\ auth.opt = NoOptions
     /\ \A g \in 1..Len(auth.checkers) : Len(auth.checkers[g]) >= 1)
        => SameDecisionInEveryOrder

---------------------------------------------------------------------------
(* certauth: the request binder *)

StatusOK == 200

StatusForbidden == 403

\* a fresh http.ResponseWriter: nothing written yet, which a client sees as 200
NewResponse == [code |-> StatusOK, body |-> ""]

\* defaultAuthErrorHandler, or the handler the Auth was configured with
ServeError(handler, w) ==
    IF handler = "default"
    THEN [code |-> StatusForbidden, body |-> "Authentication Failed"]
    ELSE [code |-> 401, body |-> handler]

\* a slip: the leaf of the last verified chain that has one
VerifiedLeafOfLastChain(r) ==
    LET chains == r.TLS.VerifiedChains.elems
        last   == chains[Len(chains)]
    IN  IF Len(last) > 0 THEN last[1] ELSE chains[1][1]

\* r.TLS.VerifiedChains[0][0]
VerifiedLeaf(r) == r.TLS.VerifiedChains.elems[1][1]

\* the index expressions of ValidateRequest and ProcessWithParams are in range
HasVerifiedLeaf(r) ==
    /\ ~r.TLS.isNil
    /\ GoLen(r.TLS.VerifiedChains) > 0
    /\ Len(r.TLS.VerifiedChains.elems[1]) > 0

\* a slip: only a missing TLS state counts as a missing chain
ValidateRequestTLSOnly(a, r) ==
    IF r.TLS.isNil
    THEN [err |-> Errorf("no cert chain detected", <<>>, <<>>), panic |-> FALSE]
    ELSE IF ~r.TLS.PeerCertificates.isNil
         THEN IF GoLen(r.TLS.PeerCertificates) = 0 \/ ~HasVerifiedLeaf(r)
              THEN [err |-> NoErr, panic |-> TRUE]
              ELSE IF r.TLS.PeerCertificates.elems[1].Raw # VerifiedLeaf(r).Raw
                   THEN [err |-> Errorf("first peer certificate not first verified chain leaf",
                                        <<>>, <<>>),
                         panic |-> FALSE]
                   ELSE [err |-> NoErr, panic |-> FALSE]
         ELSE [err |-> NoErr, panic |-> FALSE]

\* Auth.ValidateRequest: the error, or a panic of an index out of range
ValidateRequest(a, r) ==
    IF r.TLS.isNil \/ r.TLS.VerifiedChains.isNil
    THEN [err |-> Errorf("no cert chain detected", <<>>, <<>>), panic |-> FALSE]
    ELSE IF ~r.TLS.PeerCertificates.isNil
         THEN IF GoLen(r.TLS.PeerCertificates) = 0 \/ ~HasVerifiedLeaf(r)
              THEN [err |-> NoErr, panic |-> TRUE]
              ELSE IF r.TLS.PeerCertificates.elems[1].Raw # VerifiedLeaf(r).Raw
                   THEN [err |-> Errorf("first peer certificate not first verified chain leaf",
                                        <<>>, <<>>),
                         panic |-> FALSE]
                   ELSE [err |-> NoErr, panic |-> FALSE]
         ELSE [err |-> NoErr, panic |-> FALSE]

\* what ProcessWithParams hands back: the request (isNil when nil), the error,
\* the response written so far, the handlers run and the checker calls made
Processed(r, isNil, err, panic, w, log, calls) ==
    [r |-> r, isNil |-> isNil, err |-> err, panic |-> panic, w |-> w, log |-> log,
     calls |-> calls]

\* a slip: the new context holds the facts and nothing of the old context
AuthorizedFreshContext(a, w, r, c) ==
    IF c.err # NoErr
    THEN Processed(r, TRUE, c.err, FALSE, ServeError(a.errorHandler, w),
                   <<[who |-> "errorHandler", r |-> r]>>, c.calls)
    ELSE IF Cardinality(DOMAIN c.facts) = 0
         THEN Processed(r, FALSE, NoErr, FALSE, w, <<>>, c.calls)
         ELSE Processed([r EXCEPT !.ctx = c.facts], FALSE, NoErr, FALSE, w, <<>>, c.calls)

\* ProcessWithParams once the authorizer has answered c
Authorized(a, w, r, c) ==
    IF c.err # NoErr
    THEN Processed(r, TRUE, c.err, FALSE, ServeError(a.errorHandler, w),
                   <<[who |-> "errorHandler", r |-> r]>>, c.calls)
    ELSE IF Cardinality(DOMAIN c.facts) = 0
         THEN Processed(r, FALSE, NoErr, FALSE, w, <<>>, c.calls)
         ELSE Processed([r EXCEPT !.ctx = MergeInto(@, c.facts)],
                        FALSE, NoErr, FALSE, w, <<>>, c.calls)

\* ProcessWithParams once ValidateRequest has answered v
Validated(a, w, r, ps, v) ==
    IF v.panic
    THEN Processed(r, TRUE, NoErr, TRUE, w, <<>>, <<>>)
    ELSE IF v.err # NoErr
    THEN Processed(r, TRUE, v.err, FALSE, w, <<>>, <<>>)
    ELSE IF ~HasVerifiedLeaf(r)
    THEN Processed(r, TRUE, NoErr, TRUE, w, <<>>, <<>>)
    ELSE Authorized(a, w, r, CheckAuthorization(a, VerifiedLeaf(r), ps))

\* Auth.ProcessWithParams
ProcessWithParams(a, w, r, ps) == Validated(a, w, r, ps, ValidateRequest(a, r))

\* Auth.Process
Process(a, w, r) == ProcessWithParams(a, w, r, NilSlice)

\* the wrapped handler h runs on the request it is given
ServeWrapped(p) ==
    [p EXCEPT !.w = [code |-> StatusOK, body |-> "handler"],
              !.log = Append(@, [who |-> "h", r |-> p.r])]

\* a slip: the wrapped handler runs whatever the binder returned
ServeAlways(p) == IF p.panic THEN p ELSE ServeWrapped(p)

\* the closures of Handler and RouterHandler once the binder has returned p:
\* they return on an error and serve the wrapped handler otherwise
ServeProcessed(p) == IF p.panic \/ p.err # NoErr THEN p ELSE ServeWrapped(p)

\* the handler Auth.Handler(h) returns, serving r
Handler(a, w, r) == ServeProcessed(Process(a, w, r))

\* the handle Auth.RouterHandler(h) returns, serving r with the route's parameters
RouterHandler(a, w, r, ps) == ServeProcessed(ProcessWithParams(a, w, r, ps))

---------------------------------------------------------------------------
(* The request binder: Spec *)

cEng == Cert(1, Slice(<<OUEng>>), CNAdmin)

cSite == Cert(2, Slice(<<OUSite>>), CNSiteA)

\* the subject of cEng in another certificate
cEngOther == Cert(3, Slice(<<OUEng>>), CNAdmin)

BinderCerts == {cEng, cSite, cEngOther}

\* a verified chain: leaf first, at most two certificates
BinderChains ==
    {<<>>} \cup {<<c>> : c \in BinderCerts} \cup {<<c, d>> : c, d \in BinderCerts}

NoTLS == [isNil |-> TRUE, VerifiedChains |-> NilSlice, PeerCertificates |-> NilSlice]

\* the tls.ConnectionState values of a request
BinderTLS ==
    {NoTLS} \cup
    {[isNil |-> FALSE, VerifiedChains |-> chains, PeerCertificates |-> peers] :
        chains \in SlicesUpTo(BinderChains, MaxChains),
        peers \in {NilSlice, Slice(<<>>)} \cup {Slice(<<c>>) : c \in BinderCerts}}

\* the values the request context holds before the binder runs
BinderContexts == {EmptyMap, [k \in {"request id"} |-> <<"r">>]}

BinderRequests == {[TLS |-> tls, ctx |-> ctx] : tls \in BinderTLS, ctx \in BinderContexts}

BinderParams ==
    {NilSlice, Slice(<< <<"site", <<"a">> >> >>), Slice(<< <<"site", <<"b", "a">> >> >>),
     Slice(<< <<"site", Self>> >>)}

\* the Auth instances the server is built with
BinderAuths ==
    {New,
     NewAuth([NoOptions EXCEPT !.AllowedOUs = Slice(<<OUEng>>),
                               !.AllowedCNs = Slice(<<CNAdmin>>)]),
     NewAuth([NoOptions EXCEPT !.AuthorizationCheckers =
                Slice(PantheonSiteAuth(Slice(<<OUSite, OUEng>>), NilSlice, Slice(<<OUSite>>)))]),
     NewAuth([NoOptions EXCEPT !.AuthorizationCheckers =
                Slice(PantheonSiteAuth(Slice(<<OUEng>>), NilSlice, Slice(<<OUSite>>)))]),
     WithErrorHandler(WithCheckers(WithCheckers(New, <<ckOU>>), <<ckSite, ckBoth>>), "custom")}

Init ==
    /\ pc = "idle"
    /\ checker = NoChecker
    /\ auth \in BinderAuths
    /\ input = NoInput
    /\ output = NoOutput
    /\ NoOthers

ServeHandler ==
    /\ pc = "idle"
    /\ \E r \in BinderRequests :
        /\ pc' = "Handler"
        /\ input' = [r |-> r, ps |-> NilSlice]
        /\ output' = Handler(auth, NewResponse, r)
        /\ UNCHANGED <<checker, auth, others>>

ServeRouterHandler ==
    /\ pc = "idle"
    /\ \E r \in BinderRequests, ps \in BinderParams :
        /\ pc' = "RouterHandler"
        /\ input' = [r |-> r, ps |-> ps]
        /\ output' = RouterHandler(auth, NewResponse, r, ps)
        /\ UNCHANGED <<checker, auth, others>>

Next ==
    \/ ServeHandler
    \/ ServeRouterHandler
    \/ Return

Spec == Init /\ [][Next]_vars

Served == pc \in {"Handler", "RouterHandler"}

\* the leaf of the first verified chain of the request
FirstLeaf == input.r.TLS.VerifiedChains.elems[1][1]

\* how often a handler ran for the request
Runs(who) == Cardinality({i \in 1..Len(output.log) : output.log[i].who = who})

\* what the client and the wrapped handler can observe of the served request
Decision(out) ==
    [err |-> out.err, panic |-> out.panic, w |-> out.w,
     log |-> [i \in 1..Len(out.log) |-> [who |-> out.log[i].who, ctx |-> out.log[i].r.ctx]]]

\* the request with nothing verified but the leaf of its first chain
FirstLeafOnly(r) ==
    [r EXCEPT !.TLS.VerifiedChains = Slice(<< <<r.TLS.VerifiedChains.elems[1][1]>> >>)]

\* the handler that served the request, run again on r
ServeAgain(r) ==
    IF pc = "Handler"
    THEN Handler(auth, NewResponse, r)
    ELSE RouterHandler(auth, NewResponse, r, input.ps)

\* C6: the decision for a request is the decision for the same request with only
\* the leaf of its first verified chain; if that leaf fails the policy the
\* request is denied whatever the other certificates are
C6_FirstChainLeafOnly ==
    (Served /\ HasVerifiedLeaf(input.r)) =>
        /\ Decision(output) = Decision(ServeAgain(FirstLeafOnly(input.r)))
        /\ CheckAuthorization(auth, FirstLeaf, input.ps).err # NoErr
              => Runs("h") = 0

\* the first leaf fails the policy, a later chain's leaf passes it: denied
C6_Witness ==
    /\ Served /\ HasVerifiedLeaf(input.r)
    /\ GoLen(input.r.TLS.VerifiedChains) = 2
    /\ Len(input.r.TLS.VerifiedChains.elems[2]) >= 1
    /\ CheckAuthorization(auth, FirstLeaf, input.ps).err # NoErr
    /\ CheckAuthorization(auth, input.r.TLS.VerifiedChains.elems[2][1], input.ps).err = NoErr
    /\ Len(input.r.TLS.VerifiedChains.elems[1]) = 2
    /\ CheckAuthorization(auth, input.r.TLS.VerifiedChains.elems[1][2], input.ps).err = NoErr
    /\ Runs("h") = 0
    /\ output.w.code = StatusForbidden

\* C7: whenever the binder rejects a request, for a missing chain, a peer
\* certificate that is not the verified leaf or an authorizer error, the
\* configured failure handler has been invoked for it
C7_EveryDenialRunsFailureHandler ==
    (Served /\ output.err # NoErr) =>
        /\ Runs("errorHandler") = 1
        /\ output.w = ServeError(auth.errorHandler, NewResponse)

\* C8: the wrapped handler runs once when validation and authorization both
\* succeed and never when ValidateRequest or CheckAuthorization returns an
\* error; the failure handler and the wrapped handler never both run
C8_WrappedHandlerOnlyOnSuccess ==
    Served =>
        LET v == ValidateRequest(auth, input.r)
            validated == ~v.panic /\ v.err = NoErr /\ HasVerifiedLeaf(input.r)
            rejected == ~v.panic /\ v.err # NoErr
            checked == CheckAuthorization(auth, FirstLeaf, input.ps).err
        IN  /\ (validated /\ checked = NoErr) => Runs("h") = 1
            /\ rejected => Runs("h") = 0
            /\ (validated /\ checked # NoErr) => Runs("h") = 0
            /\ Runs("h") <= 1
            /\ ~(Runs("h") >= 1 /\ Runs("errorHandler") >= 1)

\* a routed request that passes and one the authorizer rejects
C8_Witness ==
    /\ pc = "RouterHandler"
    /\ ValidateRequest(auth, input.r).err = NoErr
    /\ HasVerifiedLeaf(input.r)
    /\ ~input.r.TLS.PeerCertificates.isNil
    /\ CheckAuthorization(auth, FirstLeaf, input.ps).err = NoErr
    /\ Runs("h") = 1
    /\ Runs("errorHandler") = 0
    /\ output.w.body = "handler"

\* the error ValidateRequest returns for a request without a certificate chain
NoCertChain == Errorf("no cert chain detected", <<>>, <<>>)

\* C14: for a request without TLS state or with a nil list of verified chains
\* ValidateRequest returns "no cert chain detected" and the binder returns
\* that error and no request without calling any checker
C14_NoChainNoChecker ==
    (Served /\ (input.r.TLS.isNil \/ input.r.TLS.VerifiedChains.isNil)) =>
        /\ ValidateRequest(auth, input.r) = [err |-> NoCertChain, panic |-> FALSE]
        /\ output.err = NoCertChain
        /\ output.isNil /\ ~output.panic
        /\ output.calls = <<>>
        /\ Runs("h") = 0

\* TLS state and a peer certificate, but a nil list of verified chains
C14_Witness ==
    /\ Served
    /\ ~input.r.TLS.isNil
    /\ input.r.TLS.VerifiedChains.isNil
    /\ GoLen(input.r.TLS.PeerCertificates) = 1
    /\ Len(GroupsOf(auth)) >= 1
    /\ output.err = NoCertChain
    /\ output.calls = <<>>

\* the first peer certificate and the first verified leaf exist and are equal
PeerIsVerifiedLeaf ==
    /\ GoLen(input.r.TLS.PeerCertificates) > 0
    /\ HasVerifiedLeaf(input.r)
    /\ input.r.TLS.PeerCertificates.elems[1].Raw = FirstLeaf.Raw

\* C15: with a list of verified chains and a list of peer certificates,
\* ValidateRequest succeeds exactly when the first peer certificate and the
\* leaf of the first verified chain have the same raw bytes and returns the
\* "first peer certificate not first verified chain leaf" error otherwise;
\* without a list of peer certificates it succeeds
C15_PeerMatchesVerifiedLeaf ==
    (Served /\ ~input.r.TLS.isNil /\ ~input.r.TLS.VerifiedChains.isNil) =>
        LET v == ValidateRequest(auth, input.r)
        IN  IF input.r.TLS.PeerCertificates.isNil
            THEN v = [err |-> NoErr, panic |-> FALSE]
            ELSE /\ ~v.panic
                 /\ v.err = NoErr <=> PeerIsVerifiedLeaf
                 /\ v.err # NoErr =>
                       v.err.kind = "first peer certificate not first verified chain leaf"

\* the same where the first peer certificate and the first verified leaf exist
PeerCheckWhereBothExist ==
    (/\ Served /\ HasVerifiedLeaf(input.r)
     /\ GoLen(input.r.TLS.PeerCertificates) > 0) =>
        LET v == ValidateRequest(auth, input.r)
        IN  /\ ~v.panic
            /\ v.err = NoErr <=> PeerIsVerifiedLeaf
            /\ v.err # NoErr =>
                  v.err.kind = "first peer certificate not first verified chain leaf"

\* the facts the authorizer returns for the request
FactsOfRequest == CheckAuthorization(auth, FirstLeaf, input.ps).facts

\* C16: when the authorizer succeeds the binder returns the request it was
\* given if there are no facts, and otherwise a request with the same TLS
\* state whose context holds every fact and every value of the old context;
\* the wrapped handler is served that request
C16_FactsInContext ==
    (Served /\ ~output.panic /\ output.err = NoErr) =>
        /\ ~output.isNil
        /\ output.log = <<[who |-> "h", r |-> output.r]>>
        /\ FactsOfRequest = EmptyMap => output.r = input.r
        /\ FactsOfRequest # EmptyMap =>
              /\ output.r.TLS = input.r.TLS
              /\ DOMAIN output.r.ctx = DOMAIN input.r.ctx \cup DOMAIN FactsOfRequest
              /\ \A k \in DOMAIN FactsOfRequest : output.r.ctx[k] = FactsOfRequest[k]
              /\ \A k \in DOMAIN input.r.ctx : output.r.ctx[k] = input.r.ctx[k]

\* a site client is served its site's route: the context holds the request id
\* it held before and the site facts
C16_Witness ==
    /\ pc = "RouterHandler"
    /\ ~output.panic /\ output.err = NoErr
    /\ "request id" \in DOMAIN input.r.ctx
    /\ {"request id", PantheonSite, PantheonEnv} \subseteq DOMAIN output.r.ctx
    /\ output.r.ctx["request id"] = input.r.ctx["request id"]
    /\ output.r.ctx[PantheonSite] = <<"a">>

\* the Auth is NewAuth of the two checkers PantheonSiteAuth returns
IsPantheonSiteAuth ==
    /\ auth.checkers = <<>>
    /\ GoLen(auth.opt.AuthorizationCheckers) = 2
    /\ auth.opt.AuthorizationCheckers.elems[1].type = "AllowSpecificOUandCNs"
    /\ auth.opt.AuthorizationCheckers.elems[2].type = "PantheonSiteAuthChecker"

\* the routed request passed ValidateRequest and has a verified leaf
RoutedAndValidated ==
    /\ pc = "RouterHandler"
    /\ HasVerifiedLeaf(input.r)
    /\ ValidateRequest(auth, input.r) = [err |-> NoErr, panic |-> FALSE]

\* the client of the request has an OU among ous
LeafHasOU(ous) == Elems(FirstLeaf.OU) \cap Elems(ous) # {}

\* C21: under the PantheonSiteAuth policy a site client with a well-formed CN
\* that asks for the site "self" gets 200 and the wrapped handler finds the
\* site of the CN under PantheonSite
C21_SelfIsOwnSite ==
    (/\ RoutedAndValidated /\ IsPantheonSiteAuth
     /\ LeafHasOU(auth.opt.AuthorizationCheckers.elems[1].OUs)
     /\ LeafHasOU(auth.opt.AuthorizationCheckers.elems[2].SiteOUs)
     /\ IsSiteCN(FirstLeaf.CN)
     /\ ByName(input.ps, "site") = Self)
        => /\ output.w.code = StatusOK
           /\ Runs("h") = 1
           /\ PantheonSite \in DOMAIN output.r.ctx
           /\ output.r.ctx[PantheonSite] = SiteOfCN(FirstLeaf.CN)

\* the client passes the allow-list checker of PantheonSiteAuth
PassesAllowLists ==
    /\ GoLen(auth.opt.AuthorizationCheckers.elems[1].OUs) > 0
          => LeafHasOU(auth.opt.AuthorizationCheckers.elems[1].OUs)
    /\ GoLen(auth.opt.AuthorizationCheckers.elems[1].CNs) > 0
          => FirstLeaf.CN \in Elems(auth.opt.AuthorizationCheckers.elems[1].CNs)

\* the site check does not apply to the request, or the site of the CN is the
\* site of the route
PassesSiteCheck ==
    \/ ~LeafHasOU(auth.opt.AuthorizationCheckers.elems[2].SiteOUs)
    \/ ByName(input.ps, "site") = <<>>
    \/ (IsSiteCN(FirstLeaf.CN) /\ SiteOfCN(FirstLeaf.CN) = ByName(input.ps, "site"))

C26_NoIndexOutOfRange ==
    Served => (~ValidateRequest(auth, input.r).panic /\ ~output.panic)

---------------------------------------------------------------------------
(* Slices in the heap.  A slice is a header [isNil, arr, len, cap] over the *)
(* backing array number arr of mem.arrays, so that two headers over one     *)
(* array see each other's writes.                                           *)

\* most checkers the caller puts in its own slice
MaxCallerCheckers == 3
\* most Auth instances made from one slice
MaxAuths == 2

NilHeader == [isNil |-> TRUE, arr |-> 0, len |-> 0, cap |-> 0]

\* the slice value a header shows
Deref(arrays, h) ==
    IF h.isNil THEN NilSlice ELSE Slice(SubSeq(arrays[h.arr], 1, h.len))

\* the capacity append grows a full slice of capacity c to
GrownCap(c) == IF c = 0 THEN 1 ELSE 2 * c

\* append(h, x): in place when the capacity allows it, else into a new array
GoAppend(arrays, h, x) ==
    IF h.len < h.cap
    THEN [arrays |-> [arrays EXCEPT ![h.arr][h.len + 1] = x],
          slice  |-> [h EXCEPT !.len = @ + 1]]
    ELSE LET old == IF h.isNil THEN <<>> ELSE SubSeq(arrays[h.arr], 1, h.len)
             c   == GrownCap(h.cap)
         IN  [arrays |-> Append(arrays,
                                [i \in 1..c |-> IF i <= h.len THEN old[i]
                                                ELSE IF i = h.len + 1 THEN x
                                                ELSE NoChecker]),
              slice  |-> [isNil |-> FALSE, arr |-> Len(arrays) + 1,
                          len |-> h.len + 1, cap |-> c]]

\* NewAuth(o) where o.AuthorizationCheckers is a header: the Auth, and the arrays
\* after its append
NewAuthAt(arrays, o) ==
    LET h == IF o.AuthErrorHandler # "nil" THEN o.AuthErrorHandler ELSE "default"
    IN  IF GoLen(o.AllowedOUs) > 0 \/ GoLen(o.AllowedCNs) > 0
        THEN LET app == GoAppend(arrays, o.AuthorizationCheckers,
                                 AllowOUsandCNs(o.AllowedOUs, o.AllowedCNs))
             IN  [arrays |-> app.arrays,
                  a |-> [checkers |-> <<>>,
                         opt |-> [o EXCEPT !.AuthorizationCheckers = app.slice],
                         errorHandler |-> h]]
        ELSE [arrays |-> arrays,
              a |-> [checkers |-> <<>>, opt |-> o, errorHandler |-> h]]

\* the Auth a struct in the heap stands for, read through its header
AuthValue(arrays, a) ==
    [a EXCEPT !.opt.AuthorizationCheckers = Deref(arrays, @)]

---------------------------------------------------------------------------
(* Several Auth instances made from one checker slice: SpecNewAuth *)

\* the allow-lists of the Options: OUs only, CNs only, none
NewAuthAllowLists ==
    {[ous |-> Slice(<<OUEng>>), cns |-> NilSlice],
     [ous |-> NilSlice, cns |-> Slice(<<CNAdmin>>)],
     [ous |-> NilSlice, cns |-> NilSlice]}

NewAuthCerts ==
    {Cert(1, Slice(<<OUEng>>), CNSiteA), Cert(1, Slice(<<OUSite>>), CNAdmin),
     Cert(1, Slice(<<OUOther>>), CNSiteA)}

\* the caller's slice is still nil; no Auth is made yet
InitNewAuth ==
    /\ pc = "idle"
    /\ checker = NoChecker
    /\ auth = NoAuth
    /\ input = NoInput
    /\ output = NoOutput
    /\ mem = NoMem
    /\ goroutines = [main |-> [checkers |-> NilHeader]]
    /\ history = <<>>
    /\ cr = <<>>
    /\ disk = <<>>

\* the caller builds its slice: checkers = append(checkers, ck)
CallerAppend ==
    /\ pc = "idle"
    /\ mem.auths = <<>>
    /\ goroutines.main.checkers.len < MaxCallerCheckers
    /\ \E ck \in {ckOU, ckSite} :
        LET app == GoAppend(mem.arrays, goroutines.main.checkers, ck)
        IN  /\ mem' = [mem EXCEPT !.arrays = app.arrays]
            /\ goroutines' = [goroutines EXCEPT !.main.checkers = app.slice]
    /\ UNCHANGED <<pc, checker, auth, input, output, history, cr, disk>>

\* the caller makes one more Auth from its slice; history keeps the Auth as made
CallNewAuth ==
    /\ pc = "idle"
    /\ Len(mem.auths) < MaxAuths
    /\ \E al \in NewAuthAllowLists :
        LET made == NewAuthAt(mem.arrays,
                              [AllowedOUs |-> al.ous, AllowedCNs |-> al.cns,
                               AuthorizationCheckers |-> goroutines.main.checkers,
                               AuthErrorHandler |-> "nil"])
        IN  /\ mem' = [mem EXCEPT !.arrays = made.arrays, !.auths = Append(@, made.a)]
            /\ history' = Append(history, AuthValue(made.arrays, made.a))
    /\ UNCHANGED <<pc, checker, auth, input, output, goroutines, cr, disk>>

\* CheckAuthorization on one of the Auth instances, as the heap shows it now
CallCheckAuthorizationOf ==
    /\ pc = "idle"
    /\ \E i \in 1..Len(mem.auths), verifiedCert \in NewAuthCerts :
        /\ pc' = "Auth.CheckAuthorization"
        /\ input' = [i |-> i, verifiedCert |-> verifiedCert, ps |-> NilSlice]
        /\ output' = CheckAuthorization(AuthValue(mem.arrays, mem.auths[i]),
                                        verifiedCert, NilSlice)
    /\ UNCHANGED <<checker, auth, others>>

NextNewAuth ==
    \/ CallerAppend
    \/ CallNewAuth
    \/ CallCheckAuthorizationOf
    \/ Return

SpecNewAuth == InitNewAuth /\ [][NextNewAuth]_vars

\* C28: making one more Auth from the same checker slice leaves the checker list
\* and every decision of the Auth instances made before as they were when made
C28_AuthsIndependent ==
    /\ \A i \in 1..Len(mem.auths) : AuthValue(mem.arrays, mem.auths[i]) = history[i]
    /\ pc = "Auth.CheckAuthorization" =>
           output = CheckAuthorization(history[input.i], input.verifiedCert, input.ps)

\* the same holds when no Auth was made from a slice with spare capacity
AuthsIndependentWithoutSpareCapacity ==
    goroutines.main.checkers.len = goroutines.main.checkers.cap => C28_AuthsIndependent

---------------------------------------------------------------------------
(* Auth.CheckAuthorization statement by statement.  The Auth is a struct in *)
(* the heap (mem.auths[1]) whose slices are headers over mem.arrays; a map  *)
(* is an entry of mem.maps that records the goroutine that made it and the  *)
(* goroutines that read or wrote it.                                        *)

\* goroutines that call CheckAuthorization on the one Auth
NumGoroutines == 2

\* append(h, s...) one element after the other
RECURSIVE AppendAll(_, _, _)
AppendAll(arrays, h, s) ==
    IF s = <<>>
    THEN [arrays |-> arrays, slice |-> h]
    ELSE LET app == GoAppend(arrays, h, Head(s))
         IN  AppendAll(app.arrays, app.slice, Tail(s))

\* the Auth a in the heap: a.checkers as the WithCheckers options appended it,
\* a.opt.AuthorizationCheckers as NewAuth left it
StoreAuth(a) ==
    LET groups == AppendAll(<<>>, NilHeader, a.checkers)
        legacy == IF a.opt.AuthorizationCheckers.isNil
                  THEN [arrays |-> groups.arrays, slice |-> NilHeader]
                  ELSE AppendAll(groups.arrays, [NilHeader EXCEPT !.isNil = FALSE],
                                 a.opt.AuthorizationCheckers.elems)
    IN  [arrays |-> legacy.arrays,
         maps   |-> <<>>,
         auths  |-> << [a EXCEPT !.checkers = groups.slice,
                                 !.opt.AuthorizationCheckers = legacy.slice] >>]

\* the Auth the heap holds, read through its headers
LoadAuth(m) ==
    [m.auths[1] EXCEPT !.checkers = Deref(m.arrays, @).elems,
                       !.opt.AuthorizationCheckers = Deref(m.arrays, @)]

\* no map: the nil map, or a variable not yet assigned
NoMap == <<>>

\* a slip: every make returns the one map of the package
MakeMapShared(maps, t, v) ==
    LET id == <<0, "shared">>
    IN  IF id \in DOMAIN maps
        THEN [maps |-> maps, id |-> id]
        ELSE [maps |-> [i \in DOMAIN maps \cup {id} |->
                          IF i = id THEN [owner |-> t, touched |-> {}, m |-> EmptyMap]
                          ELSE maps[i]],
              id |-> id]

\* make(map[ContextKey]ContextValue) in goroutine t for its variable v: a new
\* map, named by the goroutine and the variable that holds it
MakeMap(maps, t, v) ==
    LET id == <<t, v>>
    IN  [maps |-> [i \in DOMAIN maps \cup {id} |->
                      IF i = id THEN [owner |-> t, touched |-> {}, m |-> EmptyMap]
                      ELSE maps[i]],
         id |-> id]

\* the content of map id; a map that was collected reads as empty
MapAt(maps, id) == IF id \in DOMAIN maps THEN maps[id].m ELSE EmptyMap

\* for k, v := range src { maps[id][k] = v } in goroutine t
WriteMap(maps, id, t, src) ==
    IF id \in DOMAIN maps
    THEN [maps EXCEPT ![id].m = MergeInto(@, src), ![id].touched = @ \cup {t}]
    ELSE maps

\* goroutine t ranges over map id
ReadMap(maps, id, t) ==
    IF id \in DOMAIN maps THEN [maps EXCEPT ![id].touched = @ \cup {t}] ELSE maps

\* the maps once those of ids are unreachable
Collect(maps, ids) == [i \in DOMAIN maps \ ids |-> maps[i]]

\* a slip: the groups are appended to the Auth's own list
appendCheckersToAuth(m) ==
    LET a      == m.auths[1]
        legacy == Deref(m.arrays, a.opt.AuthorizationCheckers)
    IN  IF GoLen(legacy) > 0
        THEN LET app == GoAppend(m.arrays, a.checkers, legacy.elems)
             IN  [mem |-> [m EXCEPT !.arrays = app.arrays, !.auths[1].checkers = app.slice],
                  checkers |-> Deref(app.arrays, app.slice).elems]
        ELSE [mem |-> m, checkers |-> Deref(m.arrays, a.checkers).elems]

\* checkers := append([][]AuthorizationChecker{}, a.checkers...), then the legacy
\* checkers as one more group: the local list, and the heap it leaves
appendCheckers(m) ==
    LET a      == m.auths[1]
        copy   == Deref(m.arrays, a.checkers).elems
        legacy == Deref(m.arrays, a.opt.AuthorizationCheckers)
    IN  [mem |-> m,
         checkers |-> IF GoLen(legacy) > 0 THEN Append(copy, legacy.elems) ELSE copy]

\* where the loops of CheckAuthorization stand next: at the call of checker k of
\* group g, or at the return statement
RECURSIVE NextChecker(_, _, _, _)
NextChecker(checkers, g, k, err) ==
    IF g > Len(checkers)
    THEN [pc |-> "return", g |-> g, k |-> k]
    ELSE IF k <= Len(checkers[g])
         THEN [pc |-> "call", g |-> g, k |-> k]
         ELSE IF err = NoErr
              THEN [pc |-> "return", g |-> g, k |-> k]
              ELSE NextChecker(checkers, g + 1, 1, err)

\* the local variables of a goroutine that is not in a call
NoCall ==
    [pc |-> "idle", verifiedCert |-> <<>>, ps |-> NilSlice, checkers |-> <<>>,
     g |-> 0, k |-> 0, ctxParams |-> NoMap, params |-> NoMap, err |-> NoErr, ret |-> <<>>]

---------------------------------------------------------------------------
(* Concurrent and repeated CheckAuthorization calls on one Auth: SpecCalls *)

CallAuths ==
    {WithCheckers(WithCheckers(New, <<ckSite, ckOU>>), <<ckCN>>),
     WithCheckers(WithCheckers(WithCheckers(New, <<ckOU, ckCN>>), <<>>), <<ckBoth>>),
     NewAuth([NoOptions EXCEPT !.AllowedOUs = Slice(<<OUEng>>),
                               !.AuthorizationCheckers = Slice(<<ckSite>>)]),
     NewAuth([NoOptions EXCEPT !.AllowedCNs = Slice(<<CNAdmin>>)])}

\* the (certificate, path parameters) pairs the goroutines ask about
CallInputs ==
    {<<Cert(1, Slice(<<OUEng>>), CNSiteA), NilSlice>>,
     <<Cert(1, Slice(<<OUEng>>), CNSiteA), Slice(<< <<"site", <<"a">> >> >>)>>,
     <<Cert(1, Slice(<<OUOther>>), CNAdmin), NilSlice>>}

InitCalls ==
    /\ pc = "idle"
    /\ checker = NoChecker
    /\ auth \in CallAuths
    /\ input = NoInput
    /\ output = NoOutput
    /\ mem = StoreAuth(auth)
    /\ goroutines = [t \in 1..NumGoroutines |-> NoCall]
    /\ history = <<>>
    /\ cr = <<>>
    /\ disk = <<>>

\* goroutine t calls a.CheckAuthorization(verifiedCert, ps) and runs
\* ctxParams := make(...); the maps of its previous call are unreachable
Enter(t) ==
    /\ goroutines[t].pc \in {"idle", "returned"}
    /\ \E in \in CallInputs :
        LET made == MakeMap(Collect(mem.maps, {goroutines[t].ctxParams}), t, "ctxParams")
        IN  /\ mem' = [mem EXCEPT !.maps = made.maps]
            /\ goroutines' = [goroutines EXCEPT ![t] =
                   [NoCall EXCEPT !.pc = "append", !.verifiedCert = in[1], !.ps = in[2],
                                  !.ctxParams = made.id]]
    /\ UNCHANGED <<pc, checker, auth, input, output, history, cr, disk>>

\* checkers := append(...): the local list of groups, then the loops begin
AppendCheckers(t) ==
    /\ goroutines[t].pc = "append"
    /\ mem' = appendCheckers(mem).mem
    /\ goroutines' = [goroutines EXCEPT ![t] =
           LET cks == appendCheckers(mem).checkers
               at  == NextChecker(cks, 1, 1, NoErr)
           IN  [@ EXCEPT !.checkers = cks, !.pc = at.pc, !.g = at.g, !.k = at.k]]
    /\ UNCHANGED <<pc, checker, auth, input, output, history, cr, disk>>

\* params, err = ck.CheckAuthorization(...): the checker makes and fills its own
\* map; on an error it returns nil and the inner loop breaks
CheckerCall(t) ==
    /\ goroutines[t].pc = "call"
    /\ LET l == goroutines[t]
           r == CallChecker(l.checkers[l.g][l.k], l.verifiedCert.OU, l.verifiedCert.CN, l.ps)
       IN  IF r.err # NoErr
           THEN /\ goroutines' = [goroutines EXCEPT ![t] =
                       LET at == NextChecker(l.checkers, l.g + 1, 1, r.err)
                       IN  [@ EXCEPT !.err = r.err, !.params = NoMap,
                                     !.pc = at.pc, !.g = at.g, !.k = at.k]]
                /\ mem' = mem
           ELSE LET made == MakeMap(mem.maps, t, "params")
                IN  /\ mem' = [mem EXCEPT !.maps = WriteMap(made.maps, made.id, t, r.facts)]
                    /\ goroutines' = [goroutines EXCEPT ![t] =
                           [@ EXCEPT !.err = NoErr, !.params = made.id, !.pc = "merge"]]
    /\ UNCHANGED <<pc, checker, auth, input, output, history, cr, disk>>

\* for k, v := range params { ctxParams[k] = v }; params is then unreachable
Merge(t) ==
    /\ goroutines[t].pc = "merge"
    /\ LET l == goroutines[t]
           at == NextChecker(l.checkers, l.g, l.k + 1, NoErr)
       IN  /\ mem' = [mem EXCEPT !.maps =
                   Collect(WriteMap(ReadMap(mem.maps, l.params, t), l.ctxParams, t,
                                    MapAt(mem.maps, l.params)),
                           {l.params})]
           /\ goroutines' = [goroutines EXCEPT ![t] =
                   [@ EXCEPT !.params = NoMap, !.pc = at.pc, !.g = at.g, !.k = at.k]]
    /\ UNCHANGED <<pc, checker, auth, input, output, history, cr, disk>>

\* return ctxParams, err: the caller reads the map; history keeps the first
\* result of each input
ReturnCall(t) ==
    /\ goroutines[t].pc = "return"
    /\ LET l   == goroutines[t]
           in  == <<l.verifiedCert, l.ps>>
           ret == [facts |-> MapAt(mem.maps, l.ctxParams), err |-> l.err]
       IN  /\ goroutines' = [goroutines EXCEPT ![t] = [@ EXCEPT !.pc = "returned", !.ret = ret]]
           /\ mem' = [mem EXCEPT !.maps = ReadMap(@, l.ctxParams, t)]
           /\ history' = IF in \in DOMAIN history
                         THEN history
                         ELSE [x \in DOMAIN history \cup {in} |->
                                  IF x = in THEN ret ELSE history[x]]
    /\ UNCHANGED <<pc, checker, auth, input, output, cr, disk>>

NextCalls ==
    \E t \in 1..NumGoroutines :
        \/ Enter(t)
        \/ AppendCheckers(t)
        \/ CheckerCall(t)
        \/ Merge(t)
        \/ ReturnCall(t)

SpecCalls == InitCalls /\ [][NextCalls]_vars

\* goroutine t has its result
CallReturned(t) == goroutines[t].pc = "returned"

InputOf(t) == <<goroutines[t].verifiedCert, goroutines[t].ps>>

\* C23: whatever was evaluated before, an evaluation returns the facts and the
\* error the first evaluation of the same certificate and path parameters
\* returned, and the groups and checkers of the Auth are at every moment the
\* ones it was configured with
C23_Idempotent ==
    /\ LoadAuth(mem) = auth
    /\ \A t \in 1..NumGoroutines : CallReturned(t) => goroutines[t].ret = history[InputOf(t)]

\* an input is evaluated for the second time, after another input, with facts
C23_Witness ==
    /\ CallReturned(1) /\ CallReturned(2)
    /\ InputOf(1) = InputOf(2)
    /\ Cardinality(DOMAIN history) >= 2
    /\ DOMAIN goroutines[2].ret.facts # {}

\* C24: in every interleaving each call returns the facts and the error of the
\* call run alone, and a map is read and written only by the goroutine whose
\* call made it
C24_CallsDoNotInterfere ==
    /\ \A t \in 1..NumGoroutines :
           CallReturned(t) =>
               LET alone == CheckAuthorization(auth, goroutines[t].verifiedCert, goroutines[t].ps)
               IN  goroutines[t].ret = [facts |-> alone.facts, err |-> alone.err]
    /\ \A id \in DOMAIN mem.maps : mem.maps[id].touched \subseteq {mem.maps[id].owner}
    /\ \A t, u \in 1..NumGoroutines :
           (t # u /\ goroutines[t].ctxParams # NoMap) =>
               goroutines[t].ctxParams \notin {goroutines[u].ctxParams, goroutines[u].params}

\* a call returns its facts after the other goroutine wrote other facts to its
\* own map in the middle of the call
C24_Witness ==
    /\ CallReturned(1)
    /\ DOMAIN goroutines[1].ret.facts # {}
    /\ goroutines[2].pc \in {"call", "merge"}
    /\ goroutines[2].ctxParams \in DOMAIN mem.maps
    /\ MapAt(mem.maps, goroutines[2].ctxParams) # EmptyMap
    /\ MapAt(mem.maps, goroutines[2].ctxParams) # goroutines[1].ret.facts

---------------------------------------------------------------------------
(* certutils: CertReloader.  A file holds 0 (it is missing) or the number   *)
(* of the key pair written to it; the pair loads when both files hold the   *)
(* same number.  A certificate pointer is 0 (nil) or the number of the pair *)
(* it was loaded from.  A watcher is a record: the files added to it and    *)
(* whether an event and an error wait on its channels.  RLock and Lock make *)
(* the read in GetCertificate and the store in setCertificate one step each.*)

\* key pairs that are written to the files
NumVersions == 2
\* most errors the watchers report on their Errors channels
MaxWatcherErrors == 1
\* most times a file is written or removed
MaxWrites == 2

\* the capacity of the Error channel
ErrorCap == 10

NilWatcher == [isNil |-> TRUE, closed |-> FALSE, files |-> {}, events |-> FALSE, errors |-> FALSE]

Watching(files) ==
    [isNil |-> FALSE, closed |-> FALSE, files |-> files, events |-> FALSE, errors |-> FALSE]

\* tls.LoadX509KeyPair(certFile, keyFile)
LoadX509KeyPair(d) ==
    IF d.certFile # 0 /\ d.certFile = d.keyFile
    THEN [c |-> d.certFile, err |-> NoErr]
    ELSE [c |-> 0, err |-> Errorf("LoadX509KeyPair", <<>>, <<>>)]

\* a slip: the certificate is stored whether or not the pair loaded
setCertificateAlways(certificate, d) ==
    [certificate |-> LoadX509KeyPair(d).c, err |-> LoadX509KeyPair(d).err]

\* cr.setCertificate(): the certificate afterwards, and the error returned
setCertificate(certificate, d) ==
    IF LoadX509KeyPair(d).err # NoErr
    THEN [certificate |-> certificate, err |-> LoadX509KeyPair(d).err]
    ELSE [certificate |-> LoadX509KeyPair(d).c, err |-> NoErr]

\* cr.newWatcher(): cr.watcher afterwards, and the error returned; ok tells
\* whether fsnotify.NewWatcher succeeds, and Add fails for a missing file
newWatcher(d, ok) ==
    IF ~ok
    THEN [watcher |-> NilWatcher, err |-> Errorf("NewWatcher", <<>>, <<>>)]
    ELSE IF d.certFile = 0
         THEN [watcher |-> Watching({}), err |-> Errorf("Add", <<"certFile">>, <<>>)]
         ELSE IF d.keyFile = 0
              THEN [watcher |-> Watching({"certFile"}), err |-> Errorf("Add", <<"keyFile">>, <<>>)]
              ELSE [watcher |-> Watching({"certFile", "keyFile"}), err |-> NoErr]

\* the statement after the send at pc
AfterSend(at) == IF at = "sendLoadErr" THEN "resetWatcher" ELSE "select"

NoReload == [before |-> 0, err |-> NoErr, sent |-> FALSE]

---------------------------------------------------------------------------
(* The CertReloader, its watch goroutine, its callers and the files: SpecReloader *)

\* &CertReloader{...} is made and NewCertReloader is about to load the pair; with
\* or without a goroutine that reads cr.Error
InitReloader ==
    /\ pc = "idle"
    /\ checker = NoChecker
    /\ auth = NoAuth
    /\ input = NoInput
    /\ output = NoOutput
    /\ mem = NoMem
    /\ \E reads \in BOOLEAN :
        goroutines = [main |-> "NewCertReloader", watch |-> [pc |-> "off", err |-> NoErr],
                      reader |-> reads, watcherErrors |-> 0, writes |-> 0]
    /\ history = NoReload
    /\ cr = [certificate |-> 0, Error |-> <<>>, watcher |-> NilWatcher]
    /\ disk \in [certFile : 0..NumVersions, keyFile : 0..NumVersions]

\* NewCertReloader: the first load; on success the watch goroutine is started
\* and cr is returned
NewCertReloader ==
    /\ goroutines.main = "NewCertReloader"
    /\ LET set == setCertificate(cr.certificate, disk)
       IN  IF set.err # NoErr
           THEN /\ goroutines' = [goroutines EXCEPT !.main = "failed"]
                /\ cr' = cr
           ELSE /\ goroutines' = [goroutines EXCEPT !.main = "returned", !.watch.pc = "newWatcher"]
                /\ cr' = [cr EXCEPT !.certificate = set.certificate]
    /\ UNCHANGED <<pc, checker, auth, input, output, mem, history, disk>>

\* a TLS handshake asks for the certificate; output also keeps the last reload
\* attempt before the call
GetCertificate ==
    /\ goroutines.main = "returned"
    /\ pc' = "GetCertificate"
    /\ output' = [certificate |-> cr.certificate, err |-> NoErr, reload |-> history]
    /\ UNCHANGED <<checker, auth, input, others>>

GetClientCertificate ==
    /\ goroutines.main = "returned"
    /\ pc' = "GetClientCertificate"
    /\ output' = [certificate |-> cr.certificate, err |-> NoErr, reload |-> history]
    /\ UNCHANGED <<checker, auth, input, others>>

\* watchCertificate: err := cr.newWatcher(); on an error the goroutine returns
WatchNewWatcher ==
    /\ goroutines.watch.pc = "newWatcher"
    /\ \E ok \in BOOLEAN :
        LET made == newWatcher(disk, ok)
        IN  /\ cr' = [cr EXCEPT !.watcher = made.watcher]
            /\ goroutines' = [goroutines EXCEPT
                   !.watch = [pc |-> IF made.err # NoErr THEN "exit" ELSE "select",
                              err |-> made.err]]
    /\ UNCHANGED <<pc, checker, auth, input, output, mem, history, disk>>

\* case <-cr.watcher.Events; the field of a nil watcher cannot be read
WatchEvent ==
    /\ goroutines.watch.pc = "select"
    /\ IF cr.watcher.isNil
       THEN /\ goroutines' = [goroutines EXCEPT !.watch.pc = "panic"]
            /\ cr' = cr
       ELSE /\ cr.watcher.events
            /\ cr' = [cr EXCEPT !.watcher.events = FALSE]
            /\ goroutines' = [goroutines EXCEPT !.watch.pc = "setCertificate"]
    /\ UNCHANGED <<pc, checker, auth, input, output, mem, history, disk>>

\* case err := <-cr.watcher.Errors
WatchError ==
    /\ goroutines.watch.pc = "select"
    /\ ~cr.watcher.isNil
    /\ cr.watcher.errors
    /\ cr' = [cr EXCEPT !.watcher.errors = FALSE]
    /\ goroutines' = [goroutines EXCEPT
           !.watch = [pc |-> "sendWatcherErr", err |-> Errorf("watcher", <<>>, <<>>)]]
    /\ UNCHANGED <<pc, checker, auth, input, output, mem, history, disk>>

\* err := cr.setCertificate() in the loop; history keeps the reload attempt
WatchSetCertificate ==
    /\ goroutines.watch.pc = "setCertificate"
    /\ LET set == setCertificate(cr.certificate, disk)
       IN  /\ cr' = [cr EXCEPT !.certificate = set.certificate]
           /\ goroutines' = [goroutines EXCEPT
                  !.watch = [pc |-> IF set.err # NoErr THEN "sendLoadErr" ELSE "resetWatcher",
                             err |-> set.err]]
           /\ history' = [before |-> cr.certificate, err |-> set.err, sent |-> FALSE]
    /\ UNCHANGED <<pc, checker, auth, input, output, mem, disk>>

\* cr.Error <- err: waits while the channel is full
WatchSend ==
    /\ goroutines.watch.pc \in {"sendLoadErr", "sendResetErr", "sendWatcherErr"}
    /\ Len(cr.Error) < ErrorCap
    /\ cr' = [cr EXCEPT !.Error = Append(@, goroutines.watch.err)]
    /\ goroutines' = [goroutines EXCEPT !.watch.pc = AfterSend(@)]
    /\ history' = IF goroutines.watch.pc = "sendLoadErr"
                  THEN [history EXCEPT !.sent = TRUE]
                  ELSE history
    /\ UNCHANGED <<pc, checker, auth, input, output, mem, disk>>

\* resetWatcher: cr.watcher.Close(); the events that wait are dropped
WatchClose ==
    /\ goroutines.watch.pc = "resetWatcher"
    /\ cr' = [cr EXCEPT !.watcher.closed = TRUE, !.watcher.events = FALSE,
                        !.watcher.errors = FALSE]
    /\ goroutines' = [goroutines EXCEPT !.watch.pc = "resetNewWatcher"]
    /\ UNCHANGED <<pc, checker, auth, input, output, mem, history, disk>>

\* resetWatcher: return cr.newWatcher(); on an error the loop sends it
WatchResetNewWatcher ==
    /\ goroutines.watch.pc = "resetNewWatcher"
    /\ \E ok \in BOOLEAN :
        LET made == newWatcher(disk, ok)
        IN  /\ cr' = [cr EXCEPT !.watcher = made.watcher]
            /\ goroutines' = [goroutines EXCEPT
                   !.watch = [pc |-> IF made.err # NoErr THEN "sendResetErr" ELSE "select",
                              err |-> made.err]]
    /\ UNCHANGED <<pc, checker, auth, input, output, mem, history, disk>>

\* for e := range reloader.Error, where a goroutine does so
ReadError ==
    /\ goroutines.reader
    /\ cr.Error # <<>>
    /\ cr' = [cr EXCEPT !.Error = Tail(@)]
    /\ UNCHANGED <<pc, checker, auth, input, output, mem, goroutines, history, disk>>

\* a file is written or removed; a watcher it was added to gets an event
WriteFile ==
    /\ goroutines.main # "failed"
    /\ goroutines.writes < MaxWrites
    /\ goroutines' = [goroutines EXCEPT !.writes = @ + 1]
    /\ \E f \in {"certFile", "keyFile"}, v \in 0..NumVersions :
        /\ v # disk[f]
        /\ disk' = [disk EXCEPT ![f] = v]
        /\ cr' = IF ~cr.watcher.isNil /\ ~cr.watcher.closed /\ f \in cr.watcher.files
                 THEN [cr EXCEPT !.watcher.events = TRUE]
                 ELSE cr
    /\ UNCHANGED <<pc, checker, auth, input, output, mem, history>>

\* the watcher reports an error of its own
WatcherFails ==
    /\ goroutines.watcherErrors < MaxWatcherErrors
    /\ ~cr.watcher.isNil /\ ~cr.watcher.closed
    /\ ~cr.watcher.errors
    /\ cr' = [cr EXCEPT !.watcher.errors = TRUE]
    /\ goroutines' = [goroutines EXCEPT !.watcherErrors = @ + 1]
    /\ UNCHANGED <<pc, checker, auth, input, output, mem, history, disk>>

NextReloader ==
    \/ NewCertReloader
    \/ GetCertificate
    \/ GetClientCertificate
    \/ WatchNewWatcher
    \/ WatchEvent
    \/ WatchError
    \/ WatchSetCertificate
    \/ WatchSend
    \/ WatchClose
    \/ WatchResetNewWatcher
    \/ ReadError
    \/ WriteFile
    \/ WatcherFails

SpecReloader == InitReloader /\ [][NextReloader]_vars

BlockedOnError ==
    /\ goroutines.watch.pc \in {"sendLoadErr", "sendResetErr", "sendWatcherErr"}
    /\ Len(cr.Error) = ErrorCap
    /\ ~goroutines.reader

\* C30: the watch loop, once started, never ends, never waits forever to send
\* on Error, and waits for events only with a watcher that both files were
\* added to
C30_WatchLoopStaysLive ==
    /\ goroutines.watch.pc \notin {"exit", "panic"}
    /\ ~BlockedOnError
    /\ goroutines.watch.pc = "select" =>
           (~cr.watcher.isNil /\ cr.watcher.files = {"certFile", "keyFile"})

====
